---- MODULE Spec2Model ----
(***************************************************************************)
(* CanvasOAuthenticator (canvasoauthenticator/__init__.py).                *)
(*                                                                         *)
(* Python strings are sequences of one-character strings, so that lower(), *)
(* upper(), endswith(), split() and "::".join() are computed character by  *)
(* character.  JSON scalars are tagged values (int / str / None); JSON     *)
(* objects (dicts) are functions from key strings to values.               *)
(***************************************************************************)
EXTENDS Integers, Sequences, FiniteSets, TLC

VARIABLES
    \* configuration traits
    manage_groups, canvas_course_key, strip_email_domain,
    \* authenticate(): position, user dict, what the base class returned
    pc, user, base_user,
    \* get_canvas_items(): recursion stack, requests in flight, wire history
    stack, inflight, log, fetched,
    \* locals of authenticate()
    courses, course_group_names, self_groups, self_group_names,
    \* normalize_username()
    username, normalized,
    \* pre_spawn_start()
    auth_state, environment, env0, gen

cfgVars   == <<manage_groups, canvas_course_key, strip_email_domain>>
authVars  == <<user, base_user, stack, inflight, log, fetched,
               courses, course_group_names, self_groups, self_group_names>>
normVars  == <<username, normalized>>
spawnVars == <<auth_state, environment, env0, gen>>
vars      == <<cfgVars, pc, authVars, normVars, spawnVars>>

----------------------------------------------------------------------------
(* Bounds                                                                  *)

MaxPages == 3
MaxCourses == 3
MaxGroups == 3
MaxNameLen == 5

----------------------------------------------------------------------------
(* Python values                                                           *)

I(n) == [t |-> "int", n |-> n, s |-> <<>>]
S(s) == [t |-> "str", n |-> 0, s |-> s]
None == [t |-> "none", n |-> 0, s |-> <<>>]

Digit(d) ==
    CASE d = 0 -> "0" [] d = 1 -> "1" [] d = 2 -> "2" [] d = 3 -> "3"
      [] d = 4 -> "4" [] d = 5 -> "5" [] d = 6 -> "6" [] d = 7 -> "7"
      [] d = 8 -> "8" [] d = 9 -> "9"

RECURSIVE Decimal(_)
Decimal(n) == IF n < 10 THEN <<Digit(n)>> ELSE Decimal(n \div 10) \o <<Digit(n % 10)>>

\* str(x)
Str(v) ==
    CASE v.t = "int" -> Decimal(v.n)
      [] v.t = "str" -> v.s
      [] v.t = "none" -> <<"N", "o", "n", "e">>

LowerChar(c) ==
    CASE c = "A" -> "a" [] c = "B" -> "b" [] c = "C" -> "c" [] c = "D" -> "d"
      [] c = "E" -> "e" [] c = "G" -> "g" [] c = "I" -> "i" [] c = "L" -> "l"
      [] c = "M" -> "m" [] c = "N" -> "n" [] c = "O" -> "o" [] c = "P" -> "p"
      [] c = "R" -> "r" [] c = "S" -> "s" [] c = "T" -> "t" [] c = "U" -> "u"
      [] c = "Y" -> "y" [] OTHER -> c

UpperChar(c) ==
    CASE c = "a" -> "A" [] c = "b" -> "B" [] c = "c" -> "C" [] c = "d" -> "D"
      [] c = "e" -> "E" [] c = "g" -> "G" [] c = "i" -> "I" [] c = "l" -> "L"
      [] c = "m" -> "M" [] c = "n" -> "N" [] c = "o" -> "O" [] c = "p" -> "P"
      [] c = "r" -> "R" [] c = "s" -> "S" [] c = "t" -> "T" [] c = "u" -> "U"
      [] c = "y" -> "Y" [] OTHER -> c

\* s.lower(), s.upper()
Lower(s) == [i \in 1..Len(s) |-> LowerChar(s[i])]
Upper(s) == [i \in 1..Len(s) |-> UpperChar(s[i])]

\* s.endswith(suffix)
EndsWith(s, suffix) ==
    /\ Len(suffix) <= Len(s)
    /\ SubSeq(s, Len(s) - Len(suffix) + 1, Len(s)) = suffix

\* s.split("@")[0]: the part of s before its first "@" (all of s without one)
SplitAtFirst(s) ==
    IF \E i \in 1..Len(s) : s[i] = "@"
    THEN SubSeq(s, 1, (CHOOSE i \in 1..Len(s) :
                          s[i] = "@" /\ \A j \in 1..(i - 1) : s[j] # "@") - 1)
    ELSE s

\* d.get(k, default), k in d
Get(d, k, default) == IF k \in DOMAIN d THEN d[k] ELSE default
Has(d, k) == k \in DOMAIN d

\* the orders in which a Python set may be iterated
Orders(set) ==
    {f \in [1..Cardinality(set) -> set] :
        \A i, j \in 1..Cardinality(set) : i # j => f[i] # f[j]}

----------------------------------------------------------------------------
(* normalize_username                                                      *)

normalize_username(name) ==
    LET lowered == Lower(name) IN
    IF strip_email_domain # <<>> /\ EndsWith(lowered, <<"@">> \o strip_email_domain)
    THEN SplitAtFirst(lowered)
    ELSE lowered

NameChars == {"a", "B", "@", "d"}

RECURSIVE StringsUpTo(_, _)
StringsUpTo(chars, n) ==
    IF n = 0 THEN {<<>>}
    ELSE LET shorter == StringsUpTo(chars, n - 1) IN
         shorter \cup {Append(s, c) : s \in shorter, c \in chars}

Usernames == StringsUpTo(NameChars, MaxNameLen)
Domains == {<<>>, <<"d">>, <<"D">>, <<"d", "d">>}

----------------------------------------------------------------------------
(* Group names                                                             *)

kId            == <<"i", "d">>
kSisCourseId   == <<"s", "i", "s", "_", "c", "o", "u", "r", "s", "e", "_", "i", "d">>
kCourseCode    == <<"c", "o", "u", "r", "s", "e", "_", "c", "o", "d", "e">>
kEnrollments   == <<"e", "n", "r", "o", "l", "l", "m", "e", "n", "t", "s">>
kType          == <<"t", "y", "p", "e">>
kRole          == <<"r", "o", "l", "e">>
kName          == <<"n", "a", "m", "e">>
kContextType   == <<"c", "o", "n", "t", "e", "x", "t", "_", "t", "y", "p", "e">>
kCourseId      == <<"c", "o", "u", "r", "s", "e", "_", "i", "d">>
kAccountId     == <<"a", "c", "c", "o", "u", "n", "t", "_", "i", "d">>
sCourse        == <<"c", "o", "u", "r", "s", "e">>
sEnrollmentType ==
    <<"e", "n", "r", "o", "l", "l", "m", "e", "n", "t", "_", "t", "y", "p", "e">>
sGroup         == <<"g", "r", "o", "u", "p">>
sUnderscoreId  == <<"_", "i", "d">>
sSep           == <<":", ":">>

\* "::".join(map(str, terms))
RECURSIVE format_jupyterhub_group(_)
format_jupyterhub_group(terms) ==
    IF terms = <<>> THEN <<>>
    ELSE IF Len(terms) = 1 THEN Str(terms[1])
    ELSE Str(terms[1]) \o sSep \o format_jupyterhub_group(Tail(terms))

\* set(map(lambda x: x.get("type", None), course.get("enrollments", [])))
enrollment_types(course) ==
    LET enrollments == Get(course, kEnrollments, <<>>) IN
    {Get(enrollments[i], kType, None) : i \in 1..Len(enrollments)}

\* as course_groups, with `course::{course_id}` appended after the
\* enrollment-type groups
course_groups_base_last(course_id, order) ==
    [i \in 1..Len(order) |->
        format_jupyterhub_group(
            <<S(sCourse), course_id, S(sEnrollmentType), order[i]>>)] \o
    <<format_jupyterhub_group(<<S(sCourse), course_id>>)>>

\* The groups one course appends, for one iteration order of its
\* enrollment_types set.
course_groups(course_id, order) ==
    <<format_jupyterhub_group(<<S(sCourse), course_id>>)>> \o
    [i \in 1..Len(order) |->
        format_jupyterhub_group(
            <<S(sCourse), course_id, S(sEnrollmentType), order[i]>>)]

\* groups_from_canvas_courses: the lists it can return (one per iteration
\* order of the enrollment_types sets).
RECURSIVE groups_from_canvas_courses(_)
groups_from_canvas_courses(cs) ==
    IF cs = <<>> THEN {<<>>}
    ELSE LET course == Head(cs)
             course_id == Get(course, canvas_course_key, None)
             rest == groups_from_canvas_courses(Tail(cs))
         IN  IF course_id = None THEN rest
             ELSE {course_groups(course_id, order) \o r :
                       order \in Orders(enrollment_types(course)), r \in rest}

\* group.get("context_type").lower() raises AttributeError when a record
\* with a name has no context_type (get returns None)
canvas_groups_raise(gs) ==
    \E i \in 1..Len(gs) : Has(gs[i], kName) /\ ~Has(gs[i], kContextType)

\* The set groups_from_canvas_groups builds before list(groups).
canvas_group_set(gs) ==
    {LET group == gs[i]
         name == Get(group, kName, None)
         context_type == Lower(Get(group, kContextType, None).s)
         context_id_field == context_type \o sUnderscoreId
         context_id == Get(group, context_id_field, I(0))
     IN  format_jupyterhub_group(<<S(context_type), context_id, S(sGroup), name>>) :
        i \in {j \in 1..Len(gs) : Has(gs[j], kName)}}

\* as groups_from_canvas_groups, with a list in place of the set
groups_from_canvas_groups_list(gs) ==
    {LET named == SelectSeq(gs, LAMBDA g : Has(g, kName)) IN
     [i \in 1..Len(named) |->
        LET group == named[i]
            context_type == Lower(Get(group, kContextType, None).s)
        IN  format_jupyterhub_group(
                <<S(context_type),
                  Get(group, context_type \o sUnderscoreId, I(0)),
                  S(sGroup), Get(group, kName, None)>>)]}

\* groups_from_canvas_groups: the lists list(groups) can be.
groups_from_canvas_groups(gs) == Orders(canvas_group_set(gs))

----------------------------------------------------------------------------
(* Canvas records used as inputs                                           *)

sTa      == <<"t", "a">>
sStudent == <<"s", "t", "u", "d", "e", "n", "t">>
sMath    == <<"M", "9">>
sChem    == <<"C", "1">>
sCrs     == <<"C", "R", "S", ":", "M">>
sContextCourse  == <<"C", "o", "u", "r", "s", "e">>
sContextAccount == <<"A", "c", "c", "o", "u", "n", "t">>
sLab     == <<"l", "a", "b">>
sTeam    == <<"t", "e", "a", "m">>

Dict1(k1, v1) == [k \in {k1} |-> v1]
Dict2(k1, v1, k2, v2) == [k \in {k1, k2} |-> IF k = k1 THEN v1 ELSE v2]
Dict3(k1, v1, k2, v2, k3, v3) ==
    [k \in {k1, k2, k3} |-> IF k = k1 THEN v1 ELSE IF k = k2 THEN v2 ELSE v3]
Dict4(k1, v1, k2, v2, k3, v3, k4, v4) ==
    [k \in {k1, k2, k3, k4} |->
        IF k = k1 THEN v1 ELSE IF k = k2 THEN v2 ELSE IF k = k3 THEN v3 ELSE v4]

enrolTa       == Dict2(kType, S(sTa), kRole, S(sTa))
enrolStudent  == Dict1(kType, S(sStudent))
enrolUntyped  == Dict1(kRole, S(sTa))

\* a course with a duplicate enrollment and an SIS id
courseMath ==
    Dict4(kId, I(12), kCourseCode, S(sMath), kSisCourseId, S(sCrs),
          kEnrollments, <<enrolTa, enrolStudent, enrolTa>>)
\* another section with the same course_code, SIS id null
courseMathB ==
    Dict4(kId, I(7), kCourseCode, S(sMath), kSisCourseId, None,
          kEnrollments, <<enrolStudent>>)
\* SIS id not readable by the user, no enrollments entry
courseChem == Dict2(kId, I(3), kCourseCode, S(sChem))
\* an enrollment without a type
courseOdd ==
    Dict3(kId, I(4), kCourseCode, S(sChem), kEnrollments, <<enrolUntyped, enrolTa>>)

CourseRecords == {courseMath, courseMathB, courseChem, courseOdd}

groupLab   == Dict3(kName, S(sLab), kContextType, S(sContextCourse), kCourseId, I(12))
\* same name and context in another group set
groupLabB  == Dict4(kName, S(sLab), kContextType, S(sContextCourse), kCourseId, I(12),
                    kId, I(8))
groupTeam  == Dict3(kName, S(sTeam), kContextType, S(sContextAccount), kAccountId, I(5))
\* no id field for its context
groupNoId  == Dict2(kName, S(sTeam), kContextType, S(sContextCourse))
groupNoName == Dict2(kContextType, S(sContextCourse), kCourseId, I(12))
groupBare  == Dict1(kId, I(9))
\* a name, but no context_type
groupNoContext == Dict2(kName, S(sLab), kCourseId, I(12))

GroupRecords ==
    {groupLab, groupLabB, groupTeam, groupNoId, groupNoName, groupBare,
     groupNoContext}

RECURSIVE ListsUpTo(_, _)
ListsUpTo(set, n) ==
    IF n = 0 THEN {<<>>}
    ELSE LET shorter == ListsUpTo(set, n - 1) IN
         shorter \cup {Append(l, x) : l \in shorter, x \in set}

CourseKeys == {kId, kSisCourseId, kCourseCode}

----------------------------------------------------------------------------
(* The Canvas server and the base authenticator (the environment)          *)

Url(ep, page) == [ep |-> ep, page |-> page]
TokenUrl == Url("token", 0)
NoUrl    == Url("none", 0)

\* page bodies the courses and groups endpoints may answer with
CourseBodies == {<<courseMath, courseMathB>>, <<courseChem>>, <<>>}
GroupBodies  == {<<groupLab, groupNoName>>, <<groupLabB, groupTeam>>}
Bodies(ep) == IF ep = "courses" THEN CourseBodies ELSE GroupBodies

ErrorStatuses == {500}

Request(url) ==
    [kind |-> "req", url |-> url, status |-> 0, items |-> <<>>, next |-> NoUrl]
Response(url, status, items, next) ==
    [kind |-> "resp", url |-> url, status |-> status, items |-> items, next |-> next]

sToken == <<"t", "k">>
sAlice == <<"a", "l">>
sOld   == <<"o", "l", "d">>

\* what GenericOAuthenticator.authenticate may return on success
BaseUsers ==
    {[name |-> S(sAlice), auth_state |-> [access_token |-> S(sToken)]],
     [name |-> S(sAlice), auth_state |-> [access_token |-> S(sToken)],
      groups |-> <<sOld>>]}

NoDict == [k \in {} |-> None]

\* d[k] = v on a dict
SetItem(d, k, v) == [x \in DOMAIN d \cup {k} |-> IF x = k THEN v ELSE d[x]]

----------------------------------------------------------------------------
(* get_canvas_items: one frame per (recursive) call                        *)

Frame(url) == [url |-> url, data |-> <<>>, pc |-> "get"]
Top == stack[Len(stack)]
SetTop(f) == [stack EXCEPT ![Len(stack)] = f]
Pop == SubSeq(stack, 1, Len(stack) - 1)

\* session.get(url, ...): the request goes out
SendRequest ==
    /\ stack # <<>> /\ Top.pc = "get"
    /\ inflight' = inflight \cup {Top.url}
    /\ log' = Append(log, Request(Top.url))
    /\ stack' = SetTop([Top EXCEPT !.pc = "wait"])
    /\ UNCHANGED <<cfgVars, pc, user, base_user, fetched, courses,
                   course_group_names, self_groups, self_group_names,
                   normVars, spawnVars>>

\* as RecvError, with the failed page taken for an empty last page
RecvErrorAsEmptyPage ==
    /\ stack # <<>> /\ Top.pc = "wait"
    /\ \E status \in ErrorStatuses :
           log' = Append(log, Response(Top.url, status, <<>>, NoUrl))
    /\ inflight' = inflight \ {Top.url}
    /\ stack' = SetTop([Top EXCEPT !.pc = "return"])
    /\ UNCHANGED <<cfgVars, pc, user, base_user, fetched, courses,
                   course_group_names, self_groups, self_group_names,
                   normVars, spawnVars>>

\* r.status != 200: raise Exception(...)
RecvError ==
    /\ stack # <<>> /\ Top.pc = "wait"
    /\ \E status \in ErrorStatuses :
           log' = Append(log, Response(Top.url, status, <<>>, NoUrl))
    /\ inflight' = inflight \ {Top.url}
    /\ stack' = SetTop([Top EXCEPT !.pc = "raise"])
    /\ UNCHANGED <<cfgVars, pc, user, base_user, fetched, courses,
                   course_group_names, self_groups, self_group_names,
                   normVars, spawnVars>>

\* status 200: data = await r.json(); with a "next" link, url = the link and
\* the recursive call starts
RecvPage ==
    /\ stack # <<>> /\ Top.pc = "wait"
    /\ \E items \in Bodies(Top.url.ep), more \in BOOLEAN :
           /\ more => Top.url.page < MaxPages
           /\ LET next == IF more THEN Url(Top.url.ep, Top.url.page + 1) ELSE NoUrl
              IN  /\ log' = Append(log, Response(Top.url, 200, items, next))
                  /\ stack' =
                        IF next # NoUrl
                        THEN Append(SetTop([Top EXCEPT !.data = items,
                                                       !.url = next,
                                                       !.pc = "recurse"]),
                                    Frame(next))
                        ELSE SetTop([Top EXCEPT !.data = items, !.pc = "return"])
    /\ inflight' = inflight \ {Top.url}
    /\ UNCHANGED <<cfgVars, pc, user, base_user, fetched, courses,
                   course_group_names, self_groups, self_group_names,
                   normVars, spawnVars>>

\* as ReturnItems, with `data = rec + data` for `data += rec`
ReturnItemsPrepend ==
    /\ stack # <<>> /\ Top.pc = "return"
    /\ IF Len(stack) > 1
       THEN /\ stack' = [Pop EXCEPT ![Len(stack) - 1] =
                            [@ EXCEPT !.data = Top.data \o @, !.pc = "return"]]
            /\ UNCHANGED <<pc, fetched, courses, self_groups>>
       ELSE /\ stack' = <<>>
            /\ fetched' = fetched \cup {Top.url.ep}
            /\ IF pc = "await_courses"
               THEN /\ courses' = Top.data
                    /\ pc' = "derive_courses"
                    /\ UNCHANGED self_groups
               ELSE /\ self_groups' = Top.data
                    /\ pc' = "derive_groups"
                    /\ UNCHANGED courses
    /\ UNCHANGED <<cfgVars, user, base_user, inflight, log,
                   course_group_names, self_group_names, normVars, spawnVars>>

\* return data: to the calling frame (data += ...), or through get_courses /
\* get_self_groups to authenticate
ReturnItems ==
    /\ stack # <<>> /\ Top.pc = "return"
    /\ IF Len(stack) > 1
       THEN /\ stack' = [Pop EXCEPT ![Len(stack) - 1] =
                            [@ EXCEPT !.data = @ \o Top.data, !.pc = "return"]]
            /\ UNCHANGED <<pc, fetched, courses, self_groups>>
       ELSE /\ stack' = <<>>
            /\ fetched' = fetched \cup {Top.url.ep}
            /\ IF pc = "await_courses"
               THEN /\ courses' = Top.data
                    /\ pc' = "derive_courses"
                    /\ UNCHANGED self_groups
               ELSE /\ self_groups' = Top.data
                    /\ pc' = "derive_groups"
                    /\ UNCHANGED courses
    /\ UNCHANGED <<cfgVars, user, base_user, inflight, log,
                   course_group_names, self_group_names, normVars, spawnVars>>

\* as Propagate, with authenticate catching the error of the courses fetch
PropagateCaught ==
    /\ stack # <<>> /\ Top.pc = "raise"
    /\ IF Len(stack) > 1
       THEN /\ stack' = [Pop EXCEPT ![Len(stack) - 1] = [@ EXCEPT !.pc = "raise"]]
            /\ UNCHANGED pc
       ELSE /\ stack' = <<>>
            /\ pc' = IF pc = "await_courses" THEN "derive_courses" ELSE "raised"
    /\ UNCHANGED <<cfgVars, user, base_user, inflight, log, fetched, courses,
                   course_group_names, self_groups, self_group_names,
                   normVars, spawnVars>>

\* the exception leaves a frame: nothing catches it
Propagate ==
    /\ stack # <<>> /\ Top.pc = "raise"
    /\ IF Len(stack) > 1
       THEN /\ stack' = [Pop EXCEPT ![Len(stack) - 1] = [@ EXCEPT !.pc = "raise"]]
            /\ UNCHANGED pc
       ELSE /\ stack' = <<>>
            /\ pc' = "raised"
    /\ UNCHANGED <<cfgVars, user, base_user, inflight, log, fetched, courses,
                   course_group_names, self_groups, self_group_names,
                   normVars, spawnVars>>

----------------------------------------------------------------------------
(* authenticate                                                            *)

\* user = await super().authenticate(handler, data): the token exchange starts
StartAuthenticate ==
    /\ pc = "start"
    /\ inflight' = inflight \cup {TokenUrl}
    /\ log' = Append(log, Request(TokenUrl))
    /\ pc' = "base"
    /\ UNCHANGED <<cfgVars, user, base_user, stack, fetched, courses,
                   course_group_names, self_groups, self_group_names,
                   normVars, spawnVars>>

\* as BaseAuthenticated, without the manage_groups test
BaseAuthenticatedAlwaysFetch ==
    /\ pc = "base"
    /\ \E u \in BaseUsers : user' = u /\ base_user' = u
    /\ inflight' = inflight \ {TokenUrl}
    /\ log' = Append(log, Response(TokenUrl, 200, <<>>, NoUrl))
    /\ pc' = "get_courses"
    /\ UNCHANGED <<cfgVars, stack, fetched, courses,
                   course_group_names, self_groups, self_group_names,
                   normVars, spawnVars>>

\* the base class returns a user; access_token = user["auth_state"]["access_token"]
BaseAuthenticated ==
    /\ pc = "base"
    /\ \E u \in BaseUsers : user' = u /\ base_user' = u
    /\ inflight' = inflight \ {TokenUrl}
    /\ log' = Append(log, Response(TokenUrl, 200, <<>>, NoUrl))
    /\ pc' = IF manage_groups THEN "get_courses" ELSE "return"
    /\ UNCHANGED <<cfgVars, stack, fetched, courses,
                   course_group_names, self_groups, self_group_names,
                   normVars, spawnVars>>

\* the base class fails (it raises, or returns None and user["auth_state"] raises)
BaseFailed ==
    /\ pc = "base"
    /\ inflight' = inflight \ {TokenUrl}
    /\ \E status \in ErrorStatuses :
           log' = Append(log, Response(TokenUrl, status, <<>>, NoUrl))
    /\ pc' = "raised"
    /\ UNCHANGED <<cfgVars, user, base_user, stack, fetched, courses,
                   course_group_names, self_groups, self_group_names,
                   normVars, spawnVars>>

\* courses = await self.get_courses(access_token)
GetCourses ==
    /\ pc = "get_courses"
    /\ stack' = <<Frame(Url("courses", 1))>>
    /\ pc' = "await_courses"
    /\ UNCHANGED <<cfgVars, user, base_user, inflight, log, fetched, courses,
                   course_group_names, self_groups, self_group_names,
                   normVars, spawnVars>>

\* course_group_names = self.groups_from_canvas_courses(courses)
DeriveCourseGroups ==
    /\ pc = "derive_courses"
    /\ course_group_names' \in groups_from_canvas_courses(courses)
    /\ pc' = "get_groups"
    /\ UNCHANGED <<cfgVars, user, base_user, stack, inflight, log, fetched, courses,
                   self_groups, self_group_names, normVars, spawnVars>>

\* self_groups = await self.get_self_groups(access_token)
GetSelfGroups ==
    /\ pc = "get_groups"
    /\ stack' = <<Frame(Url("groups", 1))>>
    /\ pc' = "await_groups"
    /\ UNCHANGED <<cfgVars, user, base_user, inflight, log, fetched, courses,
                   course_group_names, self_groups, self_group_names,
                   normVars, spawnVars>>

\* self_group_names = self.groups_from_canvas_groups(self_groups), or the
\* error it raises leaves authenticate
DeriveSelfGroups ==
    /\ pc = "derive_groups"
    /\ IF canvas_groups_raise(self_groups)
       THEN /\ pc' = "raised"
            /\ UNCHANGED self_group_names
       ELSE /\ self_group_names' \in groups_from_canvas_groups(self_groups)
            /\ pc' = "assign"
    /\ UNCHANGED <<cfgVars, user, base_user, stack, inflight, log, fetched, courses,
                   course_group_names, self_groups, normVars, spawnVars>>

\* as AssignGroups, with the two lists swapped
AssignGroupsSwapped ==
    /\ pc = "assign"
    /\ user' = SetItem(user, "groups", self_group_names \o course_group_names)
    /\ pc' = "return"
    /\ UNCHANGED <<cfgVars, base_user, stack, inflight, log, fetched, courses,
                   course_group_names, self_groups, self_group_names,
                   normVars, spawnVars>>

\* user["groups"] = course_group_names + self_group_names
AssignGroups ==
    /\ pc = "assign"
    /\ user' = SetItem(user, "groups", course_group_names \o self_group_names)
    /\ pc' = "return"
    /\ UNCHANGED <<cfgVars, base_user, stack, inflight, log, fetched, courses,
                   course_group_names, self_groups, self_group_names,
                   normVars, spawnVars>>

\* return user
ReturnUser ==
    /\ pc = "return"
    /\ pc' = "returned"
    /\ UNCHANGED <<cfgVars, authVars, normVars, spawnVars>>

----------------------------------------------------------------------------
(* pre_spawn_start                                                         *)

kAccessToken  == <<"a", "c", "c", "e", "s", "s", "_", "t", "o", "k", "e", "n">>
kOauthUser    == <<"o", "a", "u", "t", "h", "_", "u", "s", "e", "r">>
kLoginId      == <<"l", "o", "g", "i", "n", "_", "i", "d">>
kSortableName == <<"s", "o", "r", "t", "a", "b", "l", "e", "_", "n", "a", "m", "e">>
kPrimaryEmail == <<"p", "r", "i", "m", "a", "r", "y", "_", "e", "m", "a", "i", "l">>
sOauth2       == <<"O", "A", "U", "T", "H", "2", "_">>
sOauth2AccessToken ==
    <<"O", "A", "U", "T", "H", "2", "_", "A", "C", "C", "E", "S", "S", "_",
      "T", "O", "K", "E", "N">>
kPath         == <<"P", "A", "T", "H">>
kOauth2Name   == <<"O", "A", "U", "T", "H", "2", "_", "N", "A", "M", "E">>

\* the value of user.get_auth_state(): None, or a dict
AuthState(d) == [is_none |-> FALSE, d |-> d]
NoAuthState  == [is_none |-> TRUE, d |-> NoDict]

\* not auth_state
Falsy(a) == a.is_none \/ DOMAIN a.d = {}

\* ["login_id", "name", "sortable_name", "primary_email"]
OauthUserKeys == <<kLoginId, kName, kSortableName, kPrimaryEmail>>

\* for k in keys: if k in oauth_user: environment[f"OAUTH2_{k.upper()}"] = oauth_user[k]
RECURSIVE copy_oauth_user(_, _, _)
copy_oauth_user(env, oauth_user, keys) ==
    IF keys = <<>> THEN env
    ELSE LET k == Head(keys)
             e == IF Has(oauth_user, k)
                  THEN SetItem(env, sOauth2 \o Upper(k), oauth_user[k])
                  ELSE env
         IN  copy_oauth_user(e, oauth_user, Tail(keys))

\* the body after the yield, with the value sent into the generator as
\* auth_state
pre_spawn_body(env, sent) ==
    IF Falsy(sent) THEN env
    ELSE LET e1 == IF Has(sent.d, kAccessToken)
                   THEN SetItem(env, sOauth2AccessToken, sent.d[kAccessToken])
                   ELSE env
         IN  IF Has(sent.d, kOauthUser)
             THEN copy_oauth_user(e1, sent.d[kOauthUser], OauthUserKeys)
             ELSE e1

sLogin == <<"a", "l", "1">>
sSort  == <<"L", ",", "A">>
sMail  == <<"a", "@", "d">>

FullOauthUser ==
    [k \in {kLoginId, kName, kSortableName, kPrimaryEmail, kId} |->
        IF k = kLoginId THEN S(sLogin)
        ELSE IF k = kName THEN S(sAlice)
        ELSE IF k = kSortableName THEN S(sSort)
        ELSE IF k = kPrimaryEmail THEN S(sMail)
        ELSE I(42)]

OauthUsers == {[k \in ks |-> FullOauthUser[k]] : ks \in SUBSET DOMAIN FullOauthUser}

AuthStates ==
    {NoAuthState, AuthState(NoDict), AuthState(Dict1(kAccessToken, S(sToken)))}
    \cup {AuthState(Dict1(kOauthUser, ou)) : ou \in OauthUsers}
    \cup {AuthState([k \in {kAccessToken, kOauthUser} |->
                        IF k = kAccessToken THEN S(sToken) ELSE ou]) :
             ou \in OauthUsers}

Environments ==
    {NoDict, Dict1(kPath, S(sOld)), Dict2(kPath, S(sOld), kOauth2Name, S(sOld))}

\* the hub calls authenticator.pre_spawn_start(user, spawner): an async def
\* with a yield makes an async generator, the call runs none of the body
CallPreSpawnStart ==
    /\ pc = "pre_spawn"
    /\ gen' = "created"
    /\ pc' = "called"
    /\ UNCHANGED <<cfgVars, authVars, normVars, auth_state, environment, env0>>

\* the caller is done with the hook (the returned object is not awaitable;
\* nothing obliges the caller to iterate it)
HookCompletes ==
    /\ pc = "called"
    /\ pc' = "spawning"
    /\ UNCHANGED <<cfgVars, authVars, normVars, spawnVars>>

\* a caller that iterates the generator: it runs to
\* `yield user.get_auth_state()`
GenNext ==
    /\ pc = "called" /\ gen = "created"
    /\ gen' = "suspended"
    /\ UNCHANGED <<cfgVars, pc, authVars, normVars, auth_state, environment, env0>>

\* the generator resumes with what the caller sends (None for plain
\* iteration, or the awaited auth state) and runs to its end
GenSend ==
    /\ pc = "called" /\ gen = "suspended"
    /\ \E sent \in {NoAuthState, auth_state} :
           environment' = pre_spawn_body(environment, sent)
    /\ gen' = "finished"
    /\ UNCHANGED <<cfgVars, pc, authVars, normVars, auth_state, env0>>


----------------------------------------------------------------------------
(* Specifications                                                          *)

IdleAuth ==
    /\ user = NoDict /\ base_user = NoDict
    /\ stack = <<>> /\ inflight = {} /\ log = <<>> /\ fetched = {}
    /\ courses = <<>> /\ course_group_names = <<>>
    /\ self_groups = <<>> /\ self_group_names = <<>>

IdleNorm == username = <<>> /\ normalized = <<>>

IdleSpawn ==
    /\ auth_state = NoAuthState /\ environment = NoDict /\ env0 = NoDict
    /\ gen = "none"

\* one login
Init ==
    /\ manage_groups \in BOOLEAN
    /\ canvas_course_key \in {kId, kCourseCode}
    /\ strip_email_domain = <<>>
    /\ pc = "start"
    /\ IdleAuth /\ IdleNorm /\ IdleSpawn

Next ==
    \/ StartAuthenticate
    \/ BaseAuthenticated
    \/ BaseFailed
    \/ GetCourses
    \/ SendRequest
    \/ RecvError
    \/ RecvPage
    \/ ReturnItems
    \/ Propagate
    \/ DeriveCourseGroups
    \/ GetSelfGroups
    \/ DeriveSelfGroups
    \/ AssignGroups
    \/ ReturnUser

Spec == Init /\ [][Next]_vars

\* groups_from_canvas_courses on every short list of course records
InitCourses ==
    /\ manage_groups = TRUE
    /\ canvas_course_key \in CourseKeys
    /\ strip_email_domain = <<>>
    /\ pc = "derive_courses"
    /\ user = NoDict /\ base_user = NoDict
    /\ stack = <<>> /\ inflight = {} /\ log = <<>> /\ fetched = {}
    /\ courses \in ListsUpTo(CourseRecords, MaxCourses)
    /\ course_group_names = <<>>
    /\ self_groups = <<>> /\ self_group_names = <<>>
    /\ IdleNorm /\ IdleSpawn

SpecCourses == InitCourses /\ [][DeriveCourseGroups]_vars

\* groups_from_canvas_groups on every short list of group records
InitGroups ==
    /\ manage_groups = TRUE
    /\ canvas_course_key = kId
    /\ strip_email_domain = <<>>
    /\ pc = "derive_groups"
    /\ user = NoDict /\ base_user = NoDict
    /\ stack = <<>> /\ inflight = {} /\ log = <<>> /\ fetched = {}
    /\ courses = <<>> /\ course_group_names = <<>>
    /\ self_groups \in ListsUpTo(GroupRecords, MaxGroups)
    /\ self_group_names = <<>>
    /\ IdleNorm /\ IdleSpawn

SpecGroups == InitGroups /\ [][DeriveSelfGroups]_vars

\* normalize_username on every short username
NormalizeUsername ==
    /\ pc = "normalize"
    /\ normalized' = normalize_username(username)
    /\ pc' = "normalized"
    /\ UNCHANGED <<cfgVars, authVars, username, spawnVars>>

InitNormalize ==
    /\ manage_groups = FALSE
    /\ canvas_course_key = kId
    /\ strip_email_domain \in Domains
    /\ pc = "normalize"
    /\ username \in Usernames
    /\ normalized = <<>>
    /\ IdleAuth /\ IdleSpawn

SpecNormalize == InitNormalize /\ [][NormalizeUsername]_vars

InitSpawn ==
    /\ manage_groups = FALSE
    /\ canvas_course_key = kId
    /\ strip_email_domain = <<>>
    /\ pc = "pre_spawn"
    /\ auth_state \in AuthStates
    /\ env0 \in Environments
    /\ environment = env0
    /\ gen = "none"
    /\ IdleAuth /\ IdleNorm

NextSpawn ==
    \/ CallPreSpawnStart
    \/ HookCompletes
    \/ GenNext
    \/ GenSend

SpecSpawn == InitSpawn /\ [][NextSpawn]_vars

----------------------------------------------------------------------------
(* Properties of one login (Spec)                                          *)

Endpoints == {"courses", "groups"}

\* the requests sent to, and the responses received from, one endpoint
RequestsTo(ep) == SelectSeq(log, LAMBDA e : e.kind = "req" /\ e.url.ep = ep)
ResponsesOf(ep) == SelectSeq(log, LAMBDA e : e.kind = "resp" /\ e.url.ep = ep)

RECURSIVE ItemsOf(_)
ItemsOf(responses) ==
    IF responses = <<>> THEN <<>>
    ELSE Head(responses).items \o ItemsOf(Tail(responses))

\* what get_canvas_items returned to authenticate for an endpoint
Returned(ep) == IF ep = "courses" THEN courses ELSE self_groups

Failed(ep) == \E i \in 1..Len(log) :
    log[i].kind = "resp" /\ log[i].url.ep = ep /\ log[i].status # 200

NoDuplicates(seq) == \A i, j \in 1..Len(seq) : i # j => seq[i] # seq[j]

\* C1: when get_canvas_items returns for a chain of pages that all answer
\* 200, every page of the chain was requested exactly once, in chain order,
\* and the value returned is the items of page 1, then page 2, ..., then the
\* last page; a chain without a failing page never ends in an error.
PaginationConcatenatesInOrder ==
    /\ \A ep \in Endpoints :
          ep \in fetched =>
              LET req == RequestsTo(ep)
                  resp == ResponsesOf(ep)
              IN  /\ Len(req) = Len(resp)
                  /\ \A i \in 1..Len(resp) :
                        /\ req[i].url = Url(ep, i)
                        /\ resp[i].url = Url(ep, i)
                        /\ resp[i].status = 200
                        /\ resp[i].next =
                              IF i < Len(resp) THEN Url(ep, i + 1) ELSE NoUrl
                  /\ Returned(ep) = ItemsOf(resp)
    /\ pc = "raised" => \E ep \in Endpoints \cup {"token"} : Failed(ep)

\* C1 witness: a chain of three course pages, the first two with items, was
\* fetched and returned.
ThreePagesFetched ==
    /\ "courses" \in fetched
    /\ Len(ResponsesOf("courses")) = 3
    /\ ResponsesOf("courses")[1].items = <<courseMath, courseMathB>>
    /\ ResponsesOf("courses")[2].items = <<courseChem>>
    /\ Len(courses) >= 3

\* C2: once a page of an endpoint has answered with a status other than 200,
\* get_canvas_items is raising (or has raised into authenticate), nothing was
\* returned for that endpoint, and the failed response is the last thing on
\* the wire.
ErrorPageRaisesWithoutData ==
    \A ep \in Endpoints :
        Failed(ep) =>
            /\ ep \notin fetched
            /\ Returned(ep) = <<>>
            /\ log[Len(log)].kind = "resp"
            /\ log[Len(log)].url.ep = ep
            /\ log[Len(log)].status # 200
            /\ IF stack = <<>> THEN pc = "raised" ELSE Top.pc = "raise"

\* C2 witness: the third course page failed after two pages with items, and
\* the error has reached authenticate.
ErrorAfterGoodPages ==
    /\ Failed("courses")
    /\ Len(ResponsesOf("courses")) = 3
    /\ ResponsesOf("courses")[1].items # <<>>
    /\ ResponsesOf("courses")[2].items # <<>>
    /\ stack = <<>>
    /\ pc = "raised"

\* C3: with manage_groups on, the returned user's "groups" is a list
\* groups_from_canvas_courses can derive from the items of all course pages,
\* followed by a list groups_from_canvas_groups can derive from the items of
\* all group pages; name and auth_state are those of the base user and no
\* other key is added.
GroupsAreCourseThenCanvasGroups ==
    (pc = "returned" /\ manage_groups) =>
        /\ DOMAIN user = DOMAIN base_user \cup {"groups"}
        /\ user["name"] = base_user["name"]
        /\ user["auth_state"] = base_user["auth_state"]
        /\ \E a \in groups_from_canvas_courses(ItemsOf(ResponsesOf("courses"))) :
              /\ Len(a) <= Len(user["groups"])
              /\ SubSeq(user["groups"], 1, Len(a)) = a
              /\ SubSeq(user["groups"], Len(a) + 1, Len(user["groups"]))
                    \in groups_from_canvas_groups(ItemsOf(ResponsesOf("groups")))

\* C3 witness: a user returned with groups from two course pages and two
\* group pages.
ReturnedWithBothKinds ==
    /\ pc = "returned" /\ manage_groups
    /\ Len(ResponsesOf("courses")) = 2
    /\ Len(ResponsesOf("groups")) = 2
    /\ course_group_names # <<>>
    /\ self_group_names # <<>>
    /\ Len(user["groups"]) = Len(course_group_names) + Len(self_group_names)

\* C4: with manage_groups off, no request goes to the courses or groups
\* endpoint, and the user returned is the base authenticator's user, with
\* "groups" neither added nor changed.
ManageGroupsOffLeavesUser ==
    ~manage_groups =>
        /\ \A i \in 1..Len(log) : log[i].url.ep \notin Endpoints
        /\ stack = <<>>
        /\ pc = "returned" => user = base_user

\* C4 witness: returned without group management, for a base user that
\* already carries groups.
ReturnedUnmanaged ==
    /\ ~manage_groups
    /\ pc = "returned"
    /\ "groups" \in DOMAIN user
    /\ user["groups"] = <<sOld>>

Rank(ep) == IF ep = "token" THEN 0 ELSE IF ep = "courses" THEN 1 ELSE 2

\* C9: requests and responses alternate on the wire (at most one request in
\* flight), the token exchange precedes every courses request, the last
\* courses page (200, no next link) precedes the first groups request, and
\* after a non-200 response nothing more is sent, authenticate is raising
\* and the user is not returned nor given groups.
SequentialRequests ==
    /\ Cardinality(inflight) <= 1
    /\ inflight = IF Len(log) % 2 = 1 THEN {log[Len(log)].url} ELSE {}
    /\ \A i \in 1..Len(log) :
          /\ log[i].kind = (IF i % 2 = 1 THEN "req" ELSE "resp")
          /\ log[i].kind = "resp" => log[i].url = log[i - 1].url
          /\ i > 1 => Rank(log[i - 1].url.ep) <= Rank(log[i].url.ep)
          /\ (log[i].kind = "req" /\ log[i].url.ep # "token") =>
                /\ log[2].url = TokenUrl /\ log[2].status = 200
          /\ (log[i].kind = "req" /\ log[i].url = Url("groups", 1)) =>
                /\ log[i - 1].url.ep = "courses"
                /\ log[i - 1].status = 200
                /\ log[i - 1].next = NoUrl
                /\ "courses" \in fetched
          /\ (log[i].kind = "resp" /\ log[i].status # 200) =>
                /\ i = Len(log)
                /\ pc \in {"await_courses", "await_groups", "raised"}
                /\ stack = <<>> => pc = "raised"
                /\ stack # <<>> => Top.pc = "raise"
                /\ user \in {NoDict, base_user}

\* C9 witness: courses fetched over two pages, then the second groups page
\* failed and authenticate raised.
GroupsFetchFailedLate ==
    /\ pc = "raised"
    /\ fetched = {"courses"}
    /\ Len(ResponsesOf("courses")) = 2
    /\ Len(ResponsesOf("groups")) = 2
    /\ Failed("groups")

\* C10: the groups list assigned to the returned user never holds the same
\* group name twice.
AssignedGroupsNeverRepeat ==
    (pc = "returned" /\ manage_groups) => NoDuplicates(user["groups"])

----------------------------------------------------------------------------
(* Properties of groups_from_canvas_courses (SpecCourses)                  *)

CourseGroupName(course_id) == sCourse \o sSep \o Str(course_id)
EnrollmentGroupName(course_id, type) ==
    sCourse \o sSep \o Str(course_id) \o sSep \o sEnrollmentType \o sSep \o Str(type)

\* the distinct enrollment types of a course (an enrollment without a
\* "type" counts as the type None)
DistinctTypes(course) ==
    LET enrollments == IF Has(course, kEnrollments) THEN course[kEnrollments] ELSE <<>>
    IN  {IF Has(enrollments[i], kType) THEN enrollments[i][kType] ELSE None :
            i \in 1..Len(enrollments)}

\* a course carries the configured key; with non_null, with a value other
\* than null
Carries(course, non_null) ==
    /\ Has(course, canvas_course_key)
    /\ non_null => course[canvas_course_key] # None

BlockSize(course, non_null) ==
    IF Carries(course, non_null) THEN 1 + Cardinality(DistinctTypes(course)) ELSE 0

RECURSIVE BlocksBefore(_, _)
BlocksBefore(i, non_null) ==
    IF i = 0 THEN 0
    ELSE BlocksBefore(i - 1, non_null) + BlockSize(courses[i], non_null)

\* the output is, course by course in input order, `course::{id}` followed
\* by one enrollment-type group per distinct type, and nothing else
CourseGroupsLaidOut(non_null) ==
    /\ Len(course_group_names) = BlocksBefore(Len(courses), non_null)
    /\ \A i \in 1..Len(courses) :
          Carries(courses[i], non_null) =>
              LET course_id == courses[i][canvas_course_key]
                  start == BlocksBefore(i - 1, non_null)
                  types == DistinctTypes(courses[i])
              IN  /\ course_group_names[start + 1] = CourseGroupName(course_id)
                  /\ {course_group_names[start + k] :
                         k \in 2..(1 + Cardinality(types))}
                       = {EnrollmentGroupName(course_id, t) : t \in types}

\* C5 as written: every course that carries the configured key contributes
\* `course::{id}` followed by one group per distinct enrollment type, courses
\* without the key contribute nothing, in input order.
CourseGroupsPerKeyedCourse ==
    pc = "get_groups" => CourseGroupsLaidOut(FALSE)

\* C5 amended: the same for every course that carries the configured key
\* with a value other than null; a course whose key is null contributes
\* nothing, like a course without the key.
CourseGroupsPerNonNullKey ==
    pc = "get_groups" => CourseGroupsLaidOut(TRUE)

\* C5 witness: keyed by sis_course_id, a course without the key, one with a
\* null key and one with a key and a duplicate enrollment were mapped to the
\* three groups of the last.
KeyedCourseAmongUnkeyed ==
    /\ pc = "get_groups"
    /\ canvas_course_key = kSisCourseId
    /\ courses = <<courseChem, courseMathB, courseMath>>
    /\ Len(course_group_names) = 3
    /\ course_group_names[1] = CourseGroupName(S(sCrs))

----------------------------------------------------------------------------
(* Properties of groups_from_canvas_groups (SpecGroups)                    *)

ContextIdField(group) == Lower(group[kContextType].s) \o sUnderscoreId

CanvasGroupName(group, context_id) ==
    Lower(group[kContextType].s) \o sSep \o Str(context_id) \o sSep
        \o sGroup \o sSep \o Str(group[kName])

Named == {i \in 1..Len(self_groups) : Has(self_groups[i], kName)}

Elements(seq) == {seq[i] : i \in 1..Len(seq)}

\* C6 as written: the list returned has no duplicates and its elements are
\* exactly the names `{context_type lowercased}::{context_id}::group::{name}`
\* of the records with a name, context_id being the record's
\* `{context_type}_id` field.
CanvasGroupsFromIdField ==
    pc = "assign" =>
        /\ NoDuplicates(self_group_names)
        /\ Elements(self_group_names) =
              {CanvasGroupName(self_groups[i],
                               self_groups[i][ContextIdField(self_groups[i])]) :
                  i \in {j \in Named :
                            Has(self_groups[j], ContextIdField(self_groups[j]))}}

\* C6 amended: for every list of group records whose named records all have
\* a context_type the function returns such a list, context_id being the
\* record's `{context_type}_id` field, or 0 when the record has no such
\* field; it raises only when a named record has no context_type.
CanvasGroupsFromIdFieldOrZero ==
    /\ pc = "raised" =>
          \E i \in Named : ~Has(self_groups[i], kContextType)
    /\ pc = "assign" =>
          /\ \A i \in Named : Has(self_groups[i], kContextType)
          /\ NoDuplicates(self_group_names)
          /\ Elements(self_group_names) =
                {CanvasGroupName(self_groups[i],
                                 IF Has(self_groups[i], ContextIdField(self_groups[i]))
                                 THEN self_groups[i][ContextIdField(self_groups[i])]
                                 ELSE I(0)) : i \in Named}

\* C6 witness: two records with the same name and context and a record
\* without a name were mapped to one group.
SameGroupTwiceAndNameless ==
    /\ pc = "assign"
    /\ self_groups = <<groupLab, groupNoName, groupLabB>>
    /\ self_group_names = <<CanvasGroupName(groupLab, I(12))>>

----------------------------------------------------------------------------
(* Properties of normalize_username (SpecNormalize)                        *)

\* C7: with a non-empty strip_email_domain D, a username whose lowercased
\* form ends with "@" + D is mapped to the lowercased username without that
\* suffix; every other username, and every username when D is empty, is
\* mapped to its lowercased form.
NormalizeRemovesDomainSuffix ==
    pc = "normalized" =>
        LET lowered == Lower(username)
            suffix == <<"@">> \o strip_email_domain
        IN  normalized =
                IF strip_email_domain # <<>> /\ EndsWith(lowered, suffix)
                THEN SubSeq(lowered, 1, Len(lowered) - Len(suffix))
                ELSE lowered

----------------------------------------------------------------------------
(* Properties of pre_spawn_start (SpecSpawn)                               *)

sOauth2LoginId ==
    <<"O", "A", "U", "T", "H", "2", "_", "L", "O", "G", "I", "N", "_", "I", "D">>
sOauth2SortableName ==
    <<"O", "A", "U", "T", "H", "2", "_", "S", "O", "R", "T", "A", "B", "L", "E",
      "_", "N", "A", "M", "E">>
sOauth2PrimaryEmail ==
    <<"O", "A", "U", "T", "H", "2", "_", "P", "R", "I", "M", "A", "R", "Y",
      "_", "E", "M", "A", "I", "L">>

\* the (variable, value) pairs the hook is to put into the environment
OauthEntries ==
    IF Falsy(auth_state) THEN {}
    ELSE LET d == auth_state.d
             ou == IF Has(d, kOauthUser) THEN d[kOauthUser] ELSE NoDict
         IN  (IF Has(d, kAccessToken)
              THEN {<<sOauth2AccessToken, d[kAccessToken]>>} ELSE {})
             \cup (IF Has(ou, kLoginId) THEN {<<sOauth2LoginId, ou[kLoginId]>>} ELSE {})
             \cup (IF Has(ou, kName) THEN {<<kOauth2Name, ou[kName]>>} ELSE {})
             \cup (IF Has(ou, kSortableName)
                   THEN {<<sOauth2SortableName, ou[kSortableName]>>} ELSE {})
             \cup (IF Has(ou, kPrimaryEmail)
                   THEN {<<sOauth2PrimaryEmail, ou[kPrimaryEmail]>>} ELSE {})

\* C8: once the hook has run, spawner.environment is the environment from
\* before the hook with OAUTH2_ACCESS_TOKEN and OAUTH2_LOGIN_ID / _NAME /
\* _SORTABLE_NAME / _PRIMARY_EMAIL set for the keys present in auth_state,
\* and nothing else added or changed (unchanged for an empty auth_state).
SpawnerGetsOauthEnvironment ==
    pc = "spawning" =>
        /\ DOMAIN environment = DOMAIN env0 \cup {e[1] : e \in OauthEntries}
        /\ \A e \in OauthEntries : environment[e[1]] = e[2]
        /\ \A k \in DOMAIN env0 :
              (\A e \in OauthEntries : e[1] # k) => environment[k] = env0[k]

====
